---- MODULE Spec2Model ----
(***************************************************************************)
(* Model of the knowledge-retrieval agent:                                 *)
(*   agent_module.py    retreive_data_from_document, run_agent             *)
(*   chat_interface.py  get_agent_response, main (one script run per turn) *)
(*                                                                         *)
(* Strings whose characters matter (file names, page labels, the metrics   *)
(* string) are sequences of one-character strings.  Similarity scores are  *)
(* integers in hundredths (0.1 is 10, 0.42 is 42); only their order is     *)
(* used by the code.                                                       *)
(***************************************************************************)
EXTENDS Integers, Sequences, FiniteSets, TLC

VARIABLES
    q_in,          \* retrieval call: outcome of embed_query and of index.query
    q_ret,         \* retrieval call: what retreive_data_from_document produced
    chat_history,  \* st.session_state.chat_history
    turn,          \* the latest script run that handled a user query
    arg,           \* helper call: the string passed to the helper
    res,           \* helper call: what the helper returned
    conv,          \* convert_pdf_to_images: the batch loop over the PDF files
    sess,          \* per browser session: st.session_state (chat_history, file_hashes)
    memo,          \* the st.cache_data cache of write_markdown_to_file (process-wide)
    disk,          \* the files of the working directory
    pass           \* the latest display pass: whose it was, what each record got

vars == <<q_in, q_ret, chat_history, turn, arg, res, conv, sess, memo, disk, pass>>

retrieve_vars == <<q_in, q_ret>>

session_vars == <<chat_history, turn>>

helper_vars == <<arg, res>>

conv_vars == <<conv>>

render_vars == <<sess, memo, disk, pass>>

----------------------------------------------------------------------------
(* Characters and small string helpers                                     *)

DQ == "\""
SQ == "'"
BSLASH == "\\"

AllDigits == {"0", "1", "2", "3", "4", "5", "6", "7", "8", "9"}

\* str.replace(old, new) for a single character old
replace_char(s, old, new) ==
    [i \in 1..Len(s) |-> IF s[i] = old THEN new ELSE s[i]]

\* s[i..] starts with p
starts_at(s, i, p) ==
    /\ i + Len(p) - 1 <= Len(s)
    /\ \A k \in 1..Len(p) : s[i + k - 1] = p[k]

RECURSIVE Concat(_)
Concat(ss) == IF ss = <<>> THEN <<>> ELSE Head(ss) \o Concat(Tail(ss))

PAGE_TAG == <<"_", "p", "a", "g", "e", "_">>
PNG_EXT == <<".", "p", "n", "g">>
PDF_EXT == <<".", "p", "d", "f">>
PAGE_PREFIX == <<"p", "a", "g", "e", "_">>

----------------------------------------------------------------------------
(* The similarity index (external): stored page vectors and responses      *)

\* the converter's image name for a page: <stem>_page_<n>.png
page_image_name(stem, digits) == stem \o PAGE_TAG \o digits \o PNG_EXT

\* pages of the corpus: document stem and the page number as written
PageTable == <<
    [stem |-> <<"r">>, digits |-> <<"0", "3">>],
    [stem |-> <<"r">>, digits |-> <<"3">>],
    [stem |-> <<"q">>, digits |-> <<"1", "0", "3">>] >>

\* number of vectors stored in the index; a vector beyond the page table is a
\* page ingested again under a new id
NumVectors == 4

VectorIds == 1..NumVectors

page_of(id) == PageTable[((id - 1) % Len(PageTable)) + 1]

metadata_of(id) ==
    LET p == page_of(id) IN
    [ document_name |-> page_image_name(p.stem, p.digits),
      document_path |-> <<"d", BSLASH>> \o page_image_name(p.stem, p.digits),
      page_number |-> PAGE_PREFIX \o p.digits,
      image_description |-> id ]

Scores == {-5, 10, 11, 42}

\* top_k of index.query
TopK == 3

Match(id, score) == [id |-> id, score |-> score, metadata |-> metadata_of(id)]

\* what index.query returns: at most top_k matches, distinct vectors, in
\* descending score order
IndexResponses ==
    { m \in UNION { [1..n -> {Match(id, sc) : id \in VectorIds, sc \in Scores}]
                    : n \in 0..TopK } :
        /\ \A i, j \in 1..Len(m) : i < j => m[i].id # m[j].id
        /\ \A i \in 1..(Len(m) - 1) : m[i].score >= m[i + 1].score }

----------------------------------------------------------------------------
(* agent_module.py: retreive_data_from_document                            *)

score_threshold == 10

passes_threshold_ge(score) == score >= score_threshold

passes_threshold_lt(score) == score < score_threshold

\* if match['score'] > score_threshold
passes_threshold(score) == score > score_threshold

RECURSIVE match_list_front(_)
match_list_front(matches) ==
    IF matches = <<>> THEN <<>>
    ELSE LET rest == match_list_front(Tail(matches)) IN
         IF passes_threshold(Head(matches).score)
         THEN rest \o <<Head(matches)>> ELSE rest

\* the loop appending every match that passes to match_list
match_list(matches) ==
    SelectSeq(matches, LAMBDA m : passes_threshold(m.score))

\* the pattern _page_[0-9][0-9]\.png matches s at position i
page_suffix_at(s, i) ==
    /\ starts_at(s, i, PAGE_TAG)
    /\ i + Len(PAGE_TAG) + 1 <= Len(s)
    /\ s[i + Len(PAGE_TAG)] \in AllDigits
    /\ s[i + Len(PAGE_TAG) + 1] \in AllDigits
    /\ starts_at(s, i + Len(PAGE_TAG) + 2, PNG_EXT)

RECURSIVE re_sub_from(_, _)
re_sub_from(s, i) ==
    IF i > Len(s) THEN <<>>
    ELSE IF page_suffix_at(s, i)
         THEN PDF_EXT \o re_sub_from(s, i + Len(PAGE_TAG) + 2 + Len(PNG_EXT))
         ELSE <<s[i]>> \o re_sub_from(s, i + 1)

\* re.sub(r'_page_[0-9][0-9]\.png', '.pdf', name)
derive_document_name(name) == re_sub_from(name, 1)

\* match['metadata']['page_number'].replace('page_', '')
RECURSIVE strip_page_prefix_from(_, _)
strip_page_prefix_from(s, i) ==
    IF i > Len(s) THEN <<>>
    ELSE IF starts_at(s, i, PAGE_PREFIX)
         THEN strip_page_prefix_from(s, i + Len(PAGE_PREFIX))
         ELSE <<s[i]>> \o strip_page_prefix_from(s, i + 1)

strip_page_prefix(s) == strip_page_prefix_from(s, 1)

NoBundle(kind) ==
    [ kind |-> kind, document_name |-> <<>>, document_path |-> <<>>,
      page_number |-> <<>>, page_description |-> <<>>, score |-> 0, id |-> 0 ]

\* the tool has not run
Pending == NoBundle("pending")

\* the tool returned "No relevant information found"
Sentinel == NoBundle("sentinel")

\* an exception left the tool
Raised == NoBundle("raise")

\* lines 128-156: the match_dict whose str() is returned
match_dict_last_score(ml) ==
    LET document_name == derive_document_name(ml[1].metadata.document_name) IN
    [ kind |-> "bundle",
      document_name |-> document_name,
      document_path |->
          [i \in 1..Len(ml) |-> replace_char(ml[i].metadata.document_path, BSLASH, "/")],
      page_number |->
          [i \in 1..Len(ml) |-> strip_page_prefix(ml[i].metadata.page_number)],
      page_description |->
          [i \in 1..Len(ml) |->
              [ Source |-> document_name,
                PageNumber |-> ml[i].metadata.page_number,
                Content |-> ml[i].metadata.image_description ]],
      score |-> ml[Len(ml)].score,
      id |-> ml[Len(ml)].id ]

match_dict(ml) ==
    LET document_name == derive_document_name(ml[1].metadata.document_name) IN
    [ kind |-> "bundle",
      document_name |-> document_name,
      document_path |->
          [i \in 1..Len(ml) |-> replace_char(ml[i].metadata.document_path, BSLASH, "/")],
      page_number |->
          [i \in 1..Len(ml) |-> strip_page_prefix(ml[i].metadata.page_number)],
      page_description |->
          [i \in 1..Len(ml) |->
              [ Source |-> document_name,
                PageNumber |-> ml[i].metadata.page_number,
                Content |-> ml[i].metadata.image_description ]],
      score |-> ml[1].score,
      id |-> ml[1].id ]

retreive_swallowing(in) ==
    IF ~in.embed_ok \/ ~in.index_ok THEN Sentinel
    ELSE LET ml == match_list(in.matches) IN
         IF Len(ml) = 0 THEN Sentinel ELSE match_dict(ml)

\* in: the outcome of embedding_model.embed_query and of index.query
retreive_data_from_document(in) ==
    IF ~in.embed_ok \/ ~in.index_ok THEN Raised
    ELSE LET ml == match_list(in.matches) IN
         IF Len(ml) = 0 THEN Sentinel ELSE match_dict(ml)

RetrieveInputs ==
    { [embed_ok |-> TRUE, index_ok |-> TRUE, matches |-> m] : m \in IndexResponses }
    \cup { [embed_ok |-> FALSE, index_ok |-> TRUE, matches |-> <<>>],
           [embed_ok |-> TRUE, index_ok |-> FALSE, matches |-> <<>>] }

----------------------------------------------------------------------------
(* json.loads on the metrics string (chat_interface.py, main)              *)
(* Grammar over the characters the inputs are built from: an object, an    *)
(* array, a double-quoted string or a number; a single quote is an         *)
(* ordinary character to the parser.  A position of 0 is a parse failure.  *)

\* position after the string that opens at i, 0 when it is not terminated
RECURSIVE scan_string(_, _)
scan_string(s, j) ==
    IF j > Len(s) THEN 0
    ELSE IF s[j] = DQ THEN j + 1
    ELSE scan_string(s, j + 1)

\* position after the digits that follow a number's first digit
RECURSIVE scan_digits(_, _)
scan_digits(s, j) ==
    IF j <= Len(s) /\ s[j] \in AllDigits THEN scan_digits(s, j + 1) ELSE j

\* an integer: 0, or a non-zero digit followed by digits
scan_number(s, i) == IF s[i] = "0" THEN i + 1 ELSE scan_digits(s, i + 1)

RECURSIVE parse_value(_, _), parse_members(_, _), parse_elements(_, _)
parse_value(s, i) ==
    IF i > Len(s) THEN 0
    ELSE IF s[i] = DQ THEN scan_string(s, i + 1)
    ELSE IF s[i] \in AllDigits THEN scan_number(s, i)
    ELSE IF s[i] = "{" THEN
        IF i + 1 <= Len(s) /\ s[i + 1] = "}" THEN i + 2 ELSE parse_members(s, i + 1)
    ELSE IF s[i] = "[" THEN
        IF i + 1 <= Len(s) /\ s[i + 1] = "]" THEN i + 2 ELSE parse_elements(s, i + 1)
    ELSE 0

\* "key": value pairs separated by commas, closed by }
parse_members(s, i) ==
    IF i > Len(s) \/ s[i] # DQ THEN 0
    ELSE LET k == scan_string(s, i + 1) IN
         IF k = 0 \/ k > Len(s) \/ s[k] # ":" THEN 0
         ELSE LET v == parse_value(s, k + 1) IN
              IF v = 0 \/ v > Len(s) THEN 0
              ELSE IF s[v] = "}" THEN v + 1
              ELSE IF s[v] = "," THEN parse_members(s, v + 1)
              ELSE 0

\* values separated by commas, closed by ]
parse_elements(s, i) ==
    LET v == parse_value(s, i) IN
    IF v = 0 \/ v > Len(s) THEN 0
    ELSE IF s[v] = "]" THEN v + 1
    ELSE IF s[v] = "," THEN parse_elements(s, v + 1)
    ELSE 0

\* json.loads(s): the type of the parsed value, or "JSONDecodeError"
json_loads(s) ==
    IF parse_value(s, 1) # Len(s) + 1 THEN "JSONDecodeError"
    ELSE IF s[1] = "{" THEN "dict"
    ELSE IF s[1] = "[" THEN "list"
    ELSE IF s[1] = DQ THEN "str"
    ELSE "int"

\* json.loads(response.metrics_dict.replace("'", '"'))
metrics_parse(s) == json_loads(replace_char(s, SQ, DQ))

EMPTY_METRICS == <<"{", "}">>

\* metrics strings the generation call may return
Quoted(q, body) == <<q>> \o body \o <<q>>

MapOf(key, val) == <<"{">> \o key \o <<":">> \o val \o <<"}">>

MetricsInputs ==
    { EMPTY_METRICS,
      MapOf(Quoted(DQ, <<"a">>), <<"1">>),
      MapOf(Quoted(SQ, <<"a">>), <<"1">>),
      MapOf(Quoted(SQ, <<"a">>), Quoted(SQ, <<"a">>)),
      MapOf(Quoted(DQ, <<"a">>), Quoted(DQ, <<"a", SQ, "a">>)),
      MapOf(<<"a">>, <<"1">>),
      <<"{">> \o Quoted(DQ, <<"a">>) \o <<":", "1">>,
      <<"[", "1", "]">>,
      <<"[", "]">>,
      <<"1">>,
      Quoted(DQ, <<"a">>),
      <<"a">>,
      <<>> }

----------------------------------------------------------------------------
(* agent_module.py run_agent; chat_interface.py get_agent_response, main   *)

NoneResponse == [is_none |-> TRUE, markdown_report |-> "", metrics_dict |-> <<>>]

Report(md, metrics) ==
    [is_none |-> FALSE, markdown_report |-> md, metrics_dict |-> metrics]

Queries == {"q1", "q2"}

Markdowns == {"md"}

\* index outcomes used for the tool call of a chat turn: a failing embedding
\* call, a failing index query, no match, one match at the threshold, one above
SessionRetrieveInputs ==
    { in \in RetrieveInputs :
        /\ Len(in.matches) <= 1
        /\ \A i \in 1..Len(in.matches) :
              in.matches[i].id = 1 /\ in.matches[i].score \in {score_threshold, 42} }

ToolFails(in) == ~in.embed_ok \/ ~in.index_ok

\* one run of the agent (the framework and the hosted model): whether the
\* model calls the retrieval tool, the outcome of the tool's service calls,
\* whether the generation call succeeds, and the report it returns.  A run in
\* which the tool or the generation call fails has no output.
AgentRuns ==
    { [tool_called |-> TRUE, tool_in |-> in, gen_ok |-> TRUE, output |-> NoneResponse] :
        in \in { i \in SessionRetrieveInputs : ToolFails(i) } }
    \cup
    { [tool_called |-> c, tool_in |-> in, gen_ok |-> FALSE, output |-> NoneResponse] :
        c \in BOOLEAN, in \in { i \in SessionRetrieveInputs : ~ToolFails(i) } }
    \cup
    { [tool_called |-> c, tool_in |-> in, gen_ok |-> TRUE, output |-> Report(md, ms)] :
        c \in BOOLEAN, in \in { i \in SessionRetrieveInputs : ~ToolFails(i) },
        md \in Markdowns, ms \in MetricsInputs }

\* agent.run_sync: an exception of the tool or of the generation call leaves
\* run_agent; otherwise result.output is returned
run_agent(run) ==
    LET tool_ret == IF run.tool_called
                    THEN retreive_data_from_document(run.tool_in) ELSE Pending IN
    IF tool_ret.kind = "raise" \/ ~run.gen_ok
    THEN [raised |-> TRUE, output |-> NoneResponse, tool_ret |-> tool_ret]
    ELSE [raised |-> FALSE, output |-> run.output, tool_ret |-> tool_ret]

get_agent_response_fallback(r) ==
    IF r.raised
    THEN [response |-> Report("md", EMPTY_METRICS), messages |-> {"error_agent_response"},
          loop_closed |-> FALSE]
    ELSE [response |-> r.output, messages |-> {}, loop_closed |-> TRUE]

\* try: ... return response / except Exception: st.error(...); return None.
\* loop.close() (line 796) follows the call of run_agent inside the try: it
\* runs only when run_agent returned
get_agent_response(r) ==
    IF r.raised
    THEN [response |-> NoneResponse, messages |-> {"error_agent_response"},
          loop_closed |-> FALSE]
    ELSE [response |-> r.output, messages |-> {}, loop_closed |-> TRUE]

validate_metrics_always_reset(response) ==
    [ response |-> [response EXCEPT !.metrics_dict = EMPTY_METRICS],
      messages |-> IF metrics_parse(response.metrics_dict) = "JSONDecodeError"
                   THEN {"warning_invalid_metrics"} ELSE {} ]

validate_metrics_noreset(response) ==
    IF metrics_parse(response.metrics_dict) = "JSONDecodeError"
    THEN [response |-> response, messages |-> {"warning_invalid_metrics"}]
    ELSE [response |-> response, messages |-> {}]

\* lines 1221-1231: the parse test of metrics_dict before the insert
validate_metrics(response) ==
    IF metrics_parse(response.metrics_dict) = "JSONDecodeError"
    THEN [response |-> [response EXCEPT !.metrics_dict = EMPTY_METRICS],
          messages |-> {"warning_invalid_metrics"}]
    ELSE [response |-> response, messages |-> {}]

insert_back(history, record) == Append(history, record)

\* st.session_state.chat_history.insert(0, record)
insert_front(history, record) == <<record>> \o history

NoInput == [embed_ok |-> TRUE, index_ok |-> TRUE, matches |-> <<>>]

\* number of queries a session submits
MaxTurns == 2

NoRun ==
    [tool_called |-> FALSE, tool_in |-> NoInput, gen_ok |-> TRUE, output |-> NoneResponse]

NoTurn ==
    [ n |-> 0, query |-> "", status |-> "none", run |-> NoRun, tool_ret |-> Pending,
      response |-> NoneResponse, messages |-> {}, loop_closed |-> TRUE ]

\* main, lines 1212-1242: the script run that handles user_query
Turn ==
    /\ turn.n < MaxTurns
    /\ \E user_query \in Queries, run \in AgentRuns :
        LET r == run_agent(run)
            got == get_agent_response(r)
            n == turn.n + 1
        IN
        IF ~got.response.is_none
        THEN LET v == validate_metrics(got.response) IN
             /\ chat_history' =
                    insert_front(chat_history,
                        [query |-> user_query, response |-> v.response, timestamp |-> n])
             /\ turn' = [ n |-> n, query |-> user_query, status |-> "ok",
                          run |-> run, tool_ret |-> r.tool_ret,
                          response |-> v.response,
                          messages |-> got.messages \cup v.messages,
                          loop_closed |-> got.loop_closed ]
        ELSE /\ chat_history' = chat_history
             /\ turn' = [ n |-> n, query |-> user_query, status |-> "error",
                          run |-> run, tool_ret |-> r.tool_ret,
                          response |-> got.response, messages |-> got.messages,
                          loop_closed |-> got.loop_closed ]
    /\ UNCHANGED <<retrieve_vars, helper_vars, conv_vars, render_vars>>

\* one call of the retrieval tool on the outcome q_in
Retrieve ==
    /\ q_ret = Pending
    /\ q_ret' = retreive_data_from_document(q_in)
    /\ UNCHANGED <<q_in, session_vars, helper_vars, conv_vars, render_vars>>

----------------------------------------------------------------------------
(* agent_module.py: the fields of agent_response that cite sources         *)

\* a citation in the text of a report: (source: <document>, page <number>)
Citation(document, page) == [document |-> document, page |-> page]

CitablePages ==
    { Citation(<<"r">> \o PDF_EXT, <<"0", "3">>), Citation(<<"q">> \o PDF_EXT, <<"7">>) }

\* agent_response as the hosted model fills it: the text is kept as the set of
\* citations it contains; output_type constrains the types of the fields only
CitedReport(cites, name, page, paths) ==
    [ is_none |-> FALSE, markdown_report |-> cites, metrics_dict |-> EMPTY_METRICS,
      document_name |-> name, page_number |-> page, document_path |-> paths ]

CitedReports ==
    { CitedReport(cites, name, page, paths) :
        cites \in SUBSET CitablePages,
        name \in {<<>>, <<"r">> \o PDF_EXT},
        page \in {<<>>, <<"0", "3">>},
        paths \in {<<>>, << <<"d", "/", "r">> >>} }

\* runs of the agent whose generation call returns a report with these fields
CitedRuns ==
    { [tool_called |-> TRUE, tool_in |-> in, gen_ok |-> TRUE, output |-> NoneResponse] :
        in \in { i \in SessionRetrieveInputs : ToolFails(i) } }
    \cup
    { [tool_called |-> c, tool_in |-> in, gen_ok |-> TRUE, output |-> out] :
        c \in BOOLEAN, in \in { i \in SessionRetrieveInputs : ~ToolFails(i) },
        out \in CitedReports }

\* chat_interface.py main, lines 1217-1238, for the run arg: the record a turn
\* inserts and what the tool returned in that turn
AnswerTurn ==
    /\ res = <<"pending">>
    /\ \E r \in {run_agent(arg)} :
        \E got \in {get_agent_response(r)} :
          res' = << "returned",
                    [ tool_ret |-> r.tool_ret,
                      recorded |-> ~got.response.is_none,
                      response |-> IF got.response.is_none THEN got.response
                                   ELSE validate_metrics(got.response).response ] >>
    /\ UNCHANGED <<arg, retrieve_vars, session_vars, conv_vars, render_vars>>

----------------------------------------------------------------------------
(* pdf_to_png_converter.py: sanitize_filename                              *)

\* the character class [\\/*?:"<>|]
ILLEGAL_CHARS == {BSLASH, "/", "*", "?", ":", DQ, "<", ">", "|"}

ILLEGAL_CHARS_NO_PIPE == {BSLASH, "/", "*", "?", ":", DQ, "<", ">"}

sanitize_filename_no_pipe(filename) ==
    [i \in 1..Len(filename) |->
        IF filename[i] \in ILLEGAL_CHARS_NO_PIPE THEN "_" ELSE filename[i]]

\* re.sub(r'[\\/*?:"<>|]', "_", filename)
sanitize_filename(filename) ==
    [i \in 1..Len(filename) |->
        IF filename[i] \in ILLEGAL_CHARS THEN "_" ELSE filename[i]]

\* characters of the file names given to sanitize_filename
NameChars == ILLEGAL_CHARS \cup {"a", "_", "."}

\* longest file name given to sanitize_filename
MaxNameLen == 2

SeqsUpTo(S, n) == UNION { [1..k -> S] : k \in 0..n }

\* one call of sanitize_filename on arg
Sanitize ==
    /\ res = <<"pending">>
    /\ res' = <<"returned", sanitize_filename(arg)>>
    /\ UNCHANGED <<arg, retrieve_vars, session_vars, conv_vars, render_vars>>

----------------------------------------------------------------------------
(* pdf_to_png_converter.py: convert_pdf_to_images                          *)

DigitChars == <<"0", "1", "2", "3", "4", "5", "6", "7", "8", "9">>

\* the decimal text of a page number, as the f-string formats it
RECURSIVE to_decimal(_)
to_decimal(n) ==
    IF n < 10 THEN <<DigitChars[n + 1]>>
    ELSE to_decimal(n \div 10) \o <<DigitChars[(n % 10) + 1]>>

page_num_zero_based(i) == i

\* page_num = i + 1 for the i-th image of enumerate(images), i counted from 0
page_num(i) == i + 1

\* output_dir / f"{sanitized_pdf_name}_page_{page_num}.png" for image i
image_path(sanitized_pdf_name, i) ==
    [ dir |-> sanitized_pdf_name,
      name |-> page_image_name(sanitized_pdf_name, to_decimal(page_num(i))) ]

\* stems of the PDF files of the documents directory
PdfStems == { <<"a">>, <<"b", ":">>, <<"b", "_">> }

\* page counts of the PDF files
PageCounts == {1, 2, 10}

\* most PDF files in the documents directory
MaxDocs == 2

\* DOCUMENTS_DIR.glob("*.pdf"): files of distinct names
PdfListings ==
    { l \in SeqsUpTo([stem : PdfStems, pages : PageCounts], MaxDocs) :
        \A i, j \in 1..Len(l) : i < j => l[i].stem # l[j].stem }

\* where the work on one document can fail
FailurePoints(pdf) ==
    { [at |-> a, page |-> 0] : a \in {"none", "mkdir", "read", "rasterize"} }
    \cup { [at |-> "save", page |-> k] : k \in 1..pdf.pages }

NotProcessed == [attempted |-> FALSE, result |-> "pending", saved |-> <<>>]

StartConv(files) ==
    [ files |-> files, next |-> 1,
      status |-> IF files = <<>> THEN "done" ELSE "running",
      docs |-> [i \in 1..Len(files) |-> NotProcessed] ]

loop_status(conv_now) ==
    IF conv_now.next >= Len(conv_now.files) THEN "done" ELSE "running"

\* the images saved before the failure (all of them when nothing fails)
saved_images(pdf, fail) ==
    LET name == sanitize_filename(pdf.stem)
        count == IF fail.at = "none" THEN pdf.pages
                 ELSE IF fail.at = "save" THEN fail.page - 1
                 ELSE 0
    IN [i \in 1..count |-> image_path(name, i - 1)]

\* output_dir.mkdir(exist_ok=True) raises, outside the try block: the
\* exception leaves convert_pdf_to_images
mkdir_failure(c) ==
    [ c EXCEPT !.docs[c.next] = [attempted |-> TRUE, result |-> "raised", saved |-> <<>>],
               !.status = "raised" ]

\* lines 68-106: one iteration of the loop over pdf_files
ConvertDocument ==
    /\ conv.status = "running"
    /\ \E fail \in FailurePoints(conv.files[conv.next]) :
        IF fail.at = "mkdir"
        THEN conv' = mkdir_failure(conv)
        ELSE conv' =
                [ conv EXCEPT
                    !.docs[conv.next] =
                        [ attempted |-> TRUE,
                          result |-> IF fail.at = "none" THEN "ok" ELSE "failed",
                          saved |-> saved_images(conv.files[conv.next], fail) ],
                    !.next = conv.next + 1,
                    !.status = loop_status(conv) ]
    /\ UNCHANGED <<retrieve_vars, session_vars, helper_vars, render_vars>>

----------------------------------------------------------------------------
(* chat_interface.py: write_markdown_to_file, the two output paths         *)

MD_EXT == <<".", "m", "d">>

\* s.endswith(suffix)
ends_with(s, suffix) ==
    /\ Len(suffix) <= Len(s)
    /\ starts_at(s, Len(s) - Len(suffix) + 1, suffix)

\* s.replace(old, new): every occurrence, left to right, without overlap
RECURSIVE replace_from(_, _, _, _)
replace_from(s, i, old, new) ==
    IF i > Len(s) THEN <<>>
    ELSE IF starts_at(s, i, old)
         THEN new \o replace_from(s, i + Len(old), old, new)
         ELSE <<s[i]>> \o replace_from(s, i + 1, old, new)

replace_sub(s, old, new) == replace_from(s, 1, old, new)

\* filename.replace('.pdf', '.md') if filename.endswith('.pdf') else filename
md_filename(filename) ==
    IF ends_with(filename, PDF_EXT) THEN replace_sub(filename, PDF_EXT, MD_EXT)
    ELSE filename

\* filename.replace('.md', '.pdf')
pdf_filename(filename) == replace_sub(filename, MD_EXT, PDF_EXT)

\* characters of the file names given to write_markdown_to_file
FileChars == {"a", ".", "m", "d", "p", "f"}

\* longest file name given to write_markdown_to_file
MaxFileLen == 5

\* lines 62-64 of one call of write_markdown_to_file on the file name arg
OutputPaths ==
    /\ res = <<"pending">>
    /\ res' = <<"returned", [md |-> md_filename(arg), pdf |-> pdf_filename(arg)]>>
    /\ UNCHANGED <<arg, retrieve_vars, session_vars, conv_vars, render_vars>>

----------------------------------------------------------------------------
(* chat_interface.py: write_markdown_to_file, download_button and the      *)
(* display loop of main                                                    *)

Sessions == {"A", "B"}

\* markdown_report texts (none contains "output/")
Contents == {"c1", "c2"}

\* document_path lists
ImageLists == {<<"i1">>}

\* pdf_path values: two spellings of the same pair of files
Filenames == { <<"f">> \o PDF_EXT, <<"f">> \o MD_EXT }

RenderedReport(md, images, pdf) ==
    [markdown_report |-> md, document_path |-> images, pdf_path |-> pdf]

\* the reports a turn can add: either text under the .pdf spelling, one text
\* under the .md spelling
RenderedReports ==
    { RenderedReport(md, images, <<"f">> \o PDF_EXT) :
        md \in Contents, images \in ImageLists }
    \cup { RenderedReport("c1", images, <<"f">> \o MD_EXT) : images \in ImageLists }

OUTPUT_DIR == <<"o", "u", "t", "p", "u", "t", "/">>

ASSETS == <<"a", "s", "s", "e", "t", "s">>

\* download_filename.replace("assets", ""): the path download_button reads
download_path(download_filename) == replace_sub(download_filename, ASSETS, <<>>)

\* hash(f"{content}_{tuple(image_paths)}"): a function of the two inputs
content_hash(content, image_paths) == <<"hash", content, image_paths>>

NoHash == <<"unset">>

Absent == [kind |-> "absent", content |-> "", images |-> <<>>]

\* content with the images appended, as written to the .md file
MdFile(content, image_paths) ==
    [kind |-> "md", content |-> content, images |-> image_paths]

\* the PDF that MarkdownPdf renders from that content
PdfFile(content, image_paths) ==
    [kind |-> "pdf", content |-> content, images |-> image_paths]

MdNames == { md_filename(f) : f \in Filenames }

DiskPaths ==
    MdNames \cup { pdf_filename(f) : f \in Filenames }
            \cup { download_path(f) : f \in Filenames }

\* for each filename: md_filename and pdf_filename of lines 63-64, and the path
\* download_button opens
FilePaths ==
    [ f \in Filenames |->
        [md |-> md_filename(f), pdf |-> pdf_filename(f), read |-> download_path(f)] ]

\* chat["response"].pdf_path.replace("output/", "") of line 1266
DownloadName == [p \in Filenames |-> replace_sub(p, OUTPUT_DIR, <<>>)]

CallKeys ==
    { <<r.markdown_report, r.pdf_path, r.document_path>> : r \in RenderedReports }

\* no cached value for these arguments
Miss == "miss"

\* where a write or a read of one record can fail
IoFailures == {"none", "image", "md", "pdf", "read"}

\* F applied to the value of x
Bind(x, F(_)) == CHOOSE y \in { F(v) : v \in {x} } : TRUE

\* lines 61-104, the body of write_markdown_to_file.  st: the session's
\* file_hashes and the disk; fail: the step at which an exception is raised
write_body(st, content, filename, image_paths, fail) ==
    LET md == FilePaths[filename].md
        pdf == FilePaths[filename].pdf
        h == content_hash(content, image_paths)
        embedded == IF fail = "image" THEN <<>> ELSE image_paths
    IN
    IF st.file_hashes[md] = h /\ st.disk[pdf] # Absent
    THEN [st EXCEPT !.ret = "already_exists", !.wrote = FALSE]
    ELSE IF fail = "md"
    THEN [st EXCEPT !.file_hashes[md] = h, !.ret = "error", !.wrote = FALSE]
    ELSE IF fail = "pdf"
    THEN [st EXCEPT !.file_hashes[md] = h,
                    !.disk[md] = MdFile(content, embedded),
                    !.ret = "error", !.wrote = FALSE]
    ELSE [st EXCEPT !.file_hashes[md] = h,
                    !.disk[md] = MdFile(content, embedded),
                    !.disk[pdf] = PdfFile(content, embedded),
                    !.ret = "created", !.wrote = TRUE]

\* @st.cache_data: a call whose arguments were seen before returns the stored
\* value and the body does not run; otherwise the body runs and its return
\* value is stored
write_markdown_to_file(st, content, filename, image_paths, fail) ==
    LET key == <<content, filename, image_paths>> IN
    IF st.memo[key] # Miss
    THEN [st EXCEPT !.ret = st.memo[key], !.cached = TRUE, !.wrote = FALSE]
    ELSE Bind(write_body(st, content, filename, image_paths, fail),
              LAMBDA b : [b EXCEPT !.memo[key] = b.ret, !.cached = FALSE])

\* lines 592-603: render, then read the file to offer; an open() that fails
\* raises to the caller
download_button(st, object_to_download, download_filename, document_path, fail) ==
    LET path == FilePaths[download_filename].read IN
    Bind(write_markdown_to_file(st, object_to_download, download_filename,
                                document_path, fail),
         LAMBDA w :
            IF fail = "read" \/ w.disk[path] = Absent
            THEN [w EXCEPT !.raised = TRUE, !.bytes = Absent]
            ELSE [w EXCEPT !.raised = FALSE, !.bytes = w.disk[path]])

\* lines 1281-1332: the preview has a try of its own; a failure shows an info
slideshow(fail) == IF fail = "image" THEN "info" ELSE "shown"

NotRendered ==
    [ status |-> "not_rendered", ret |-> "", wrote |-> FALSE, preview |-> "none",
      bytes |-> Absent ]

\* lines 1252-1341: the block of one transcript record, inside its own try;
\* an exception of download_button becomes a warning
render_record(st, chat, fail) ==
    Bind(IF chat.response.pdf_path = <<>>
         THEN [st EXCEPT !.raised = FALSE, !.cached = FALSE, !.ret = "",
                         !.wrote = FALSE, !.bytes = Absent]
         ELSE download_button(st, chat.response.markdown_report,
                              DownloadName[chat.response.pdf_path],
                              chat.response.document_path, fail),
         LAMBDA col1 :
            [col1 EXCEPT !.preview =
                IF col1.raised \/ chat.response.document_path = <<>>
                THEN "none"
                ELSE slideshow(fail)])

record_result(st) ==
    [ status |-> IF st.raised THEN "warning" ELSE "ok", ret |-> st.ret,
      wrote |-> st.wrote, preview |-> st.preview, bytes |-> st.bytes ]

pass_stops_on_warning(result) == result.status # "warning"

\* the except of line 1335 is inside the loop: the loop goes on to the next record
pass_continues(result) == TRUE

\* for idx, chat in enumerate(st.session_state.chat_history), from record i
RECURSIVE render_from(_, _, _, _)
render_from(st, history, i, plan) ==
    IF i > Len(history) THEN st
    ELSE Bind(render_record(st, history[i], plan[i]),
              LAMBDA r :
                Bind([r EXCEPT !.results[i] = record_result(r)],
                     LAMBDA done :
                        IF pass_continues(done.results[i])
                        THEN render_from(done, history, i + 1, plan)
                        ELSE done))

Frame(file_hashes, cache, files, n) ==
    [ file_hashes |-> file_hashes, memo |-> cache, disk |-> files,
      ret |-> "", wrote |-> FALSE, cached |-> FALSE, raised |-> FALSE,
      bytes |-> Absent, preview |-> "none",
      results |-> [i \in 1..n |-> NotRendered] ]

\* what fails during one display pass over n records: nothing, or one step of
\* one record
FailurePlans(n) ==
    { [i \in 1..n |-> "none"] } \cup
    { [i \in 1..n |-> IF i = j THEN f ELSE "none"] :
        j \in 1..n, f \in IoFailures \ {"none"} }

\* the display loop of session s over history; plan[i] is what fails at record i
Display(s, history, plan) ==
    \E start \in {Frame(sess[s].file_hashes, memo, disk, Len(history))} :
    \E out \in {render_from(start, history, 1, plan)} :
    /\ sess' = [sess EXCEPT ![s] = [chat_history |-> history,
                                     file_hashes |-> out.file_hashes]]
    /\ memo' = out.memo
    /\ disk' = out.disk
    /\ pass' = [session |-> s, results |-> out.results]

\* most records over all transcripts
MaxRecords == 2

RECURSIVE SumLen(_)
SumLen(S) ==
    IF S = {} THEN 0
    ELSE LET x == CHOOSE y \in S : TRUE IN
         Len(sess[x].chat_history) + SumLen(S \ {x})

\* a script run of session s that handles a query successfully: the record is
\* inserted, st.rerun() restarts the script and the transcript is displayed
SubmitTurn(s) ==
    /\ SumLen(Sessions) < MaxRecords
    /\ \E report \in RenderedReports :
        \E history \in {insert_front(sess[s].chat_history,
                                     [query |-> "q1", response |-> report])} :
        \E plan \in FailurePlans(Len(history)) : Display(s, history, plan)
    /\ UNCHANGED <<retrieve_vars, session_vars, helper_vars, conv_vars>>

\* a script run of session s with no query and a transcript to display
Rerun(s) ==
    /\ sess[s].chat_history # <<>>
    /\ \E plan \in FailurePlans(Len(sess[s].chat_history)) :
          Display(s, sess[s].chat_history, plan)
    /\ UNCHANGED <<retrieve_vars, session_vars, helper_vars, conv_vars>>

\* a file of the working directory is removed from outside the program
RemoveFile ==
    /\ \E path \in DiskPaths :
          /\ disk[path] # Absent
          /\ disk' = [disk EXCEPT ![path] = Absent]
    /\ UNCHANGED <<sess, memo, pass>>
    /\ UNCHANGED <<retrieve_vars, session_vars, helper_vars, conv_vars>>

----------------------------------------------------------------------------
(* Specifications                                                          *)

IdleRetrieve == q_in = NoInput /\ q_ret = Pending

IdleSession == chat_history = <<>> /\ turn = NoTurn

IdleHelper == arg = <<>> /\ res = <<"pending">>

IdleConv == conv = StartConv(<<>>)

\* every session starts with no transcript and no recorded hash (lines 23-24,
\* 1134-1135); nothing is cached and no report file exists
IdleRender ==
    /\ sess = [s \in Sessions |->
                 [chat_history |-> <<>>, file_hashes |-> [m \in MdNames |-> NoHash]]]
    /\ memo = [k \in CallKeys |-> Miss]
    /\ disk = [p \in DiskPaths |-> Absent]
    /\ pass = [session |-> "none", results |-> <<>>]

\* a session: chat_history starts empty (lines 1134-1135)
Init == IdleSession /\ IdleRetrieve /\ IdleHelper /\ IdleConv /\ IdleRender

Next == Turn

Spec == Init /\ [][Next]_vars

\* the retrieval tool alone, over every outcome of the two service calls
InitRetrieve ==
    /\ q_in \in RetrieveInputs
    /\ q_ret = Pending
    /\ IdleSession /\ IdleHelper /\ IdleConv /\ IdleRender

NextRetrieve == Retrieve

SpecRetrieve == InitRetrieve /\ [][NextRetrieve]_vars

\* sanitize_filename alone, over every file name of up to MaxNameLen characters
InitSanitize ==
    /\ arg \in SeqsUpTo(NameChars, MaxNameLen)
    /\ res = <<"pending">>
    /\ IdleSession /\ IdleRetrieve /\ IdleConv /\ IdleRender

NextSanitize == Sanitize

SpecSanitize == InitSanitize /\ [][NextSanitize]_vars

\* the output paths of write_markdown_to_file, over every file name of up to
\* MaxFileLen characters
InitPaths ==
    /\ arg \in SeqsUpTo(FileChars, MaxFileLen)
    /\ res = <<"pending">>
    /\ IdleSession /\ IdleRetrieve /\ IdleConv /\ IdleRender

NextPaths == OutputPaths

SpecPaths == InitPaths /\ [][NextPaths]_vars

\* one run of convert_pdf_to_images over every listing of the directory
InitConvert ==
    /\ conv \in { StartConv(l) : l \in PdfListings }
    /\ IdleSession /\ IdleRetrieve /\ IdleHelper /\ IdleRender

NextConvert == ConvertDocument

SpecConvert == InitConvert /\ [][NextConvert]_vars

\* one turn, over every run of CitedRuns
InitCite ==
    /\ arg \in CitedRuns
    /\ res = <<"pending">>
    /\ IdleSession /\ IdleRetrieve /\ IdleConv /\ IdleRender

NextCite == AnswerTurn

SpecCite == InitCite /\ [][NextCite]_vars

\* browser sessions submitting queries and redisplaying their transcripts
InitRender == IdleRender /\ IdleSession /\ IdleRetrieve /\ IdleHelper /\ IdleConv

NextRender ==
    \/ \E s \in Sessions : SubmitTurn(s)
    \/ \E s \in Sessions : Rerun(s)
    \/ RemoveFile

SpecRender == InitRender /\ [][NextRender]_vars

----------------------------------------------------------------------------
(* Properties of the retrieval tool, checked under SpecRetrieve            *)

Served == q_ret # Pending /\ q_in.embed_ok /\ q_in.index_ok

\* match i of the index response appears in the returned bundle
Survives(i) ==
    \E j \in 1..Len(q_ret.page_description) :
        q_ret.page_description[j].Content = q_in.matches[i].metadata.image_description

\* C1: when no match of the response scores above 0.1 (an empty response
\* included) the tool returns the sentinel as an ordinary value; when some
\* match scores above 0.1 it returns a non-empty bundle instead.
C1_SentinelIffNoMatchAbove ==
    Served =>
        /\ (\A i \in 1..Len(q_in.matches) : q_in.matches[i].score <= 10)
              => q_ret = Sentinel
        /\ (\E i \in 1..Len(q_in.matches) : q_in.matches[i].score > 10)
              => (q_ret.kind = "bundle" /\ Len(q_ret.page_description) >= 1)

C1_Witness ==
    /\ q_ret = Sentinel
    /\ Len(q_in.matches) = TopK
    /\ q_in.matches[1].score = 10

\* C2 as stated: a match is discarded only when its score is below 0.1, so
\* every match scoring 0.1 or more is in the bundle.
C2_SurvivesAtOrAbove ==
    Served =>
        \A i \in 1..Len(q_in.matches) : q_in.matches[i].score >= 10 => Survives(i)

\* C2 amended: a match is in the bundle exactly when its score is strictly
\* above 0.1; a match scoring exactly 0.1 is discarded.
C2_SurvivesIffAbove ==
    Served =>
        \A i \in 1..Len(q_in.matches) : Survives(i) <=> q_in.matches[i].score > 10

C2_Witness ==
    /\ q_ret.kind = "bundle"
    /\ \E i \in 1..Len(q_in.matches) : q_in.matches[i].score = 10 /\ ~Survives(i)
    /\ \E i \in 1..Len(q_in.matches) : q_in.matches[i].score = 11 /\ Survives(i)

\* C6: the bundle is an order-preserving subsequence of the response: its
\* entries are exactly the matches that pass the filter, in the order (by
\* descending score) the index returned them, and there are at most 3.
C6_OrderedSubsequence ==
    q_ret.kind = "bundle" =>
        LET n == Len(q_ret.page_description) IN
        /\ n <= 3
        /\ Len(q_ret.page_number) = n
        /\ Len(q_ret.document_path) = n
        /\ \E f \in [1..n -> 1..Len(q_in.matches)] :
            /\ \A a, b \in 1..n : a < b => f[a] < f[b]
            /\ \A a, b \in 1..n :
                  a < b => q_in.matches[f[a]].score >= q_in.matches[f[b]].score
            /\ {f[a] : a \in 1..n} =
                  {i \in 1..Len(q_in.matches) : q_in.matches[i].score > 10}
            /\ \A a \in 1..n :
                  /\ q_ret.page_description[a].Content =
                        q_in.matches[f[a]].metadata.image_description
                  /\ q_ret.page_description[a].PageNumber =
                        q_in.matches[f[a]].metadata.page_number

C6_Witness ==
    /\ q_ret.kind = "bundle"
    /\ Len(q_in.matches) = 3
    /\ Len(q_ret.page_description) = 2
    /\ q_in.matches[1].score > q_in.matches[2].score

\* C7: no two citations of the returned bundle refer to the same
\* (document, page) pair.
C7_Deduplicated ==
    q_ret.kind = "bundle" =>
        \A a, b \in 1..Len(q_ret.page_description) :
            a < b =>
                \/ q_ret.document_path[a] # q_ret.document_path[b]
                \/ q_ret.page_number[a] # q_ret.page_number[b]

\* C8: the bundle's document name is the image name of the top surviving match
\* with _page_<n>.png replaced by .pdf, whatever the number of digits of n.
C8_DocumentNameDerived ==
    q_ret.kind = "bundle" =>
        q_ret.document_name = page_of(q_in.matches[1].id).stem \o PDF_EXT

\* the matches of the response that score above 0.1, in response order
Surviving == SelectSeq(q_in.matches, LAMBDA m : m.score > 10)

\* C24: the 'Source:' label of the i-th page description names the document
\* derived from the i-th surviving match's own metadata.
C24_SourceOfOwnMatch ==
    q_ret.kind = "bundle" =>
        \A i \in 1..Len(q_ret.page_description) :
            q_ret.page_description[i].Source =
                derive_document_name(Surviving[i].metadata.document_name)

\* C26: a bundle has one document path, one page number and one page
\* description per surviving match, entry i taken from surviving match i (the
\* path with each backslash turned into a slash, the page number without its
\* 'page_' prefix); score and id are those of the first surviving match and
\* the score is above 0.1.
C26_ListsAlignedWithMatches ==
    q_ret.kind = "bundle" =>
        LET n == Len(Surviving) IN
        /\ n >= 1
        /\ Len(q_ret.document_path) = n
        /\ Len(q_ret.page_number) = n
        /\ Len(q_ret.page_description) = n
        /\ \A i \in 1..n :
              LET meta == Surviving[i].metadata IN
              /\ Len(q_ret.document_path[i]) = Len(meta.document_path)
              /\ \A k \in 1..Len(meta.document_path) :
                    q_ret.document_path[i][k] =
                        IF meta.document_path[k] = BSLASH THEN "/"
                        ELSE meta.document_path[k]
              /\ PAGE_PREFIX \o q_ret.page_number[i] = meta.page_number
              /\ q_ret.page_description[i].PageNumber = meta.page_number
              /\ q_ret.page_description[i].Content = meta.image_description
        /\ q_ret.score = Surviving[1].score
        /\ q_ret.id = Surviving[1].id
        /\ q_ret.score > 10

C26_Witness ==
    /\ q_ret.kind = "bundle"
    /\ Len(q_in.matches) = 3
    /\ Len(q_ret.page_number) = 2
    /\ q_in.matches[1].score > q_in.matches[2].score
    /\ q_ret.score = q_in.matches[1].score
    /\ q_ret.page_number[1] # q_ret.page_number[2]
    /\ \E k \in 1..Len(q_ret.document_path[2]) : q_ret.document_path[2][k] = "/"

----------------------------------------------------------------------------
(* Properties of a chat session, checked under Spec                        *)

\* the latest turn's tool call hit a failing embedding or index service
UpstreamToolFailure(t) ==
    t.n > 0 /\ t.run.tool_called /\ (~t.run.tool_in.embed_ok \/ ~t.run.tool_in.index_ok)

\* C3: a failure of embed_query or index.query is not turned into "no
\* evidence": the tool returns neither the sentinel nor a bundle, the turn is
\* aborted and get_agent_response sees the failure as an error.
C3_FailureNotConflated ==
    UpstreamToolFailure(turn) =>
        /\ turn.tool_ret.kind \notin {"sentinel", "bundle"}
        /\ turn.tool_ret = Raised
        /\ turn.status = "error"
        /\ turn.response.is_none
        /\ "error_agent_response" \in turn.messages

C3_Witness ==
    /\ turn.status = "error"
    /\ turn.run.tool_called
    /\ turn.run.tool_in.embed_ok
    /\ ~turn.run.tool_in.index_ok

\* C4: a turn whose embedding, index or generation call fails does not crash:
\* get_agent_response returns None, an error is shown for the turn, and the
\* transcript after the turn equals the transcript before it.
C4_FailedTurnKeepsTranscript ==
    [][ (turn'.n # turn.n /\ (UpstreamToolFailure(turn') \/ ~turn'.run.gen_ok)) =>
            /\ turn'.status = "error"
            /\ turn'.response = NoneResponse
            /\ "error_agent_response" \in turn'.messages
            /\ chat_history' = chat_history ]_vars

C4_Witness ==
    /\ turn.status = "error"
    /\ ~turn.run.gen_ok
    /\ Len(chat_history) >= 1

\* C5: the transcript is additive and most-recent-first: every step keeps the
\* records already present, in their order, as the tail of the transcript and
\* never shortens it; a successful turn puts exactly one new record, made of
\* its query, report and timestamp, at index 0; any other step adds nothing.
C5_TranscriptAdditive ==
    [][ LET old == Len(chat_history)
            new == Len(chat_history')
        IN
        /\ new >= old
        /\ SubSeq(chat_history', new - old + 1, new) = chat_history
        /\ (turn'.n # turn.n /\ turn'.status = "ok") =>
              /\ new = old + 1
              /\ chat_history'[1] =
                    [ query |-> turn'.query, response |-> turn'.response,
                      timestamp |-> turn'.n ]
        /\ ~(turn'.n # turn.n /\ turn'.status = "ok") => new = old ]_vars

C5_Witness ==
    /\ turn.status = "ok"
    /\ Len(chat_history) = 2
    /\ chat_history[1].timestamp > chat_history[2].timestamp
    /\ chat_history[1].query # chat_history[2].query

\* the generation call of the latest turn returned a report
Generated(t) == t.n > 0 /\ ~t.run.output.is_none

\* C9: a report whose metrics string does not parse once single quotes are
\* replaced by double quotes does not fail the turn: its metrics_dict becomes
\* the empty map "{}", a warning is shown and the record is inserted.
C9_InvalidMetricsDefaulted ==
    (Generated(turn) /\ metrics_parse(turn.run.output.metrics_dict) = "JSONDecodeError") =>
        /\ turn.status = "ok"
        /\ "warning_invalid_metrics" \in turn.messages
        /\ Len(chat_history) >= 1
        /\ chat_history[1].query = turn.query
        /\ chat_history[1].timestamp = turn.n
        /\ chat_history[1].response.markdown_report = turn.run.output.markdown_report
        /\ chat_history[1].response.metrics_dict = EMPTY_METRICS

C9_Witness ==
    /\ turn.status = "ok"
    /\ turn.run.output.metrics_dict = <<"{", DQ, "a", DQ, ":", "1">>
    /\ chat_history[1].response.metrics_dict = EMPTY_METRICS
    /\ "warning_invalid_metrics" \in turn.messages

\* C10: a metrics string that parses to something other than a key-value map
\* (a list, a number, a quoted string) is replaced by the empty map before the
\* report enters the transcript.
C10_OnlyMapsAccepted ==
    (Generated(turn) /\ metrics_parse(turn.run.output.metrics_dict) # "dict") =>
        /\ Len(chat_history) >= 1
        /\ chat_history[1].response.metrics_dict = EMPTY_METRICS

\* C28: a metrics string that is a valid JSON key-value map as returned, an
\* apostrophe inside a key or a value included, is in the inserted record
\* unchanged.
C28_ValidMapKept ==
    (Generated(turn) /\ json_loads(turn.run.output.metrics_dict) = "dict") =>
        /\ Len(chat_history) >= 1
        /\ chat_history[1].response.metrics_dict = turn.run.output.metrics_dict

\* C29: the event loop get_agent_response created for the latest turn was
\* closed before it returned, whether the turn succeeded or failed.
C29_LoopClosedAfterTurn == turn.n > 0 => turn.loop_closed

----------------------------------------------------------------------------
(* Properties of the cited sources, checked under SpecCite                 *)

\* the (document, page) pairs of the matches in the turn's evidence bundle
BundleCitations(tool_ret) ==
    IF tool_ret.kind = "bundle"
    THEN { Citation(tool_ret.document_name, tool_ret.page_number[i]) :
             i \in 1..Len(tool_ret.page_number) }
    ELSE {}

\* C21: every citation of a recorded report is a (document, page) of a match
\* in the turn's evidence bundle; when the bundle is empty the report has no
\* citation and its document and page fields are empty.
C21_NoFabricatedSources ==
    (res[1] = "returned" /\ res[2].recorded) =>
        LET evidence == BundleCitations(res[2].tool_ret) IN
        /\ res[2].response.markdown_report \subseteq evidence
        /\ evidence = {} =>
              /\ res[2].response.document_name = <<>>
              /\ res[2].response.page_number = <<>>
              /\ res[2].response.document_path = <<>>

----------------------------------------------------------------------------
(* Properties of sanitize_filename, checked under SpecSanitize             *)

Returned == res[1] = "returned"

----------------------------------------------------------------------------
(* Properties of convert_pdf_to_images, checked under SpecConvert          *)

\* the loop has ended, by returning or by an exception
ConvEnded == conv.status \in {"done", "raised"}

\* C16: a failure on one document, at any step (creating its subfolder, reading
\* its page count, rasterizing, saving a page), is caught and the loop goes on:
\* the batch never ends by an exception and every PDF of the directory has
\* been attempted when it ends.
C16_EveryDocumentAttempted ==
    /\ conv.status # "raised"
    /\ ConvEnded => \A i \in 1..Len(conv.files) : conv.docs[i].attempted

Numerals ==
    << <<"1">>, <<"2">>, <<"3">>, <<"4">>, <<"5">>, <<"6">>, <<"7">>, <<"8">>,
       <<"9">>, <<"1", "0">> >>

\* C17: for each PDF converted without failure the images written are exactly
\* <sanitized-stem>_page_1.png ... <sanitized-stem>_page_n.png, one per page,
\* numbered from 1 without gaps, no two alike, inside the subfolder
\* <sanitized-stem>.
C17_ImagesNamedByPage ==
    \A i \in 1..Len(conv.files) :
        conv.docs[i].result = "ok" =>
            LET stem == sanitize_filename(conv.files[i].stem)
                saved == conv.docs[i].saved
            IN
            /\ Len(saved) = conv.files[i].pages
            /\ \A k \in 1..Len(saved) :
                  /\ saved[k].dir = stem
                  /\ saved[k].name =
                        stem \o <<"_", "p", "a", "g", "e", "_">> \o Numerals[k]
                             \o <<".", "p", "n", "g">>
            /\ \A j, k \in 1..Len(saved) : j # k => saved[j].name # saved[k].name

C17_Witness ==
    \E i \in 1..Len(conv.files) :
        /\ conv.docs[i].result = "ok"
        /\ conv.files[i].stem = <<"b", ":">>
        /\ conv.files[i].pages = 10
        /\ Len(conv.docs[i].saved) = 10

\* C25: the name derivation of the retrieval tool, applied to the name of any
\* page image the converter has written, gives the image's document stem
\* followed by .pdf.
C25_NamingRoundTrip ==
    \A i \in 1..Len(conv.files) :
        \A k \in 1..Len(conv.docs[i].saved) :
            derive_document_name(conv.docs[i].saved[k].name) =
                conv.docs[i].saved[k].dir \o PDF_EXT

\* C27: two PDFs of the directory with different stems write to different
\* subfolders and to different image paths.
C27_OutputsDisjoint ==
    \A i, j \in 1..Len(conv.files) :
        (i # j /\ conv.files[i].stem # conv.files[j].stem) =>
            \A a \in 1..Len(conv.docs[i].saved), b \in 1..Len(conv.docs[j].saved) :
                /\ conv.docs[i].saved[a].dir # conv.docs[j].saved[b].dir
                /\ conv.docs[i].saved[a] # conv.docs[j].saved[b]

----------------------------------------------------------------------------
(* Properties of the output paths, checked under SpecPaths                 *)

HasSuffix(s, suffix) ==
    /\ Len(s) >= Len(suffix)
    /\ SubSeq(s, Len(s) - Len(suffix) + 1, Len(s)) = suffix

\* C14: for a file name with a .md extension, with a .pdf extension or with no
\* extension, the markdown goes to a .md file and the PDF to a .pdf file, and
\* the two paths differ.
C14_DistinctMdAndPdf ==
    (/\ Returned
     /\ \/ HasSuffix(arg, <<".", "m", "d">>)
        \/ HasSuffix(arg, <<".", "p", "d", "f">>)
        \/ (arg # <<>> /\ \A i \in 1..Len(arg) : arg[i] # "."))
    => /\ HasSuffix(res[2].md, <<".", "m", "d">>)
       /\ HasSuffix(res[2].pdf, <<".", "p", "d", "f">>)
       /\ res[2].md # res[2].pdf


\* C15: the report a turn stores is the object the generation call returned,
\* with every field as returned.
C15_ReportAsReturned ==
    (Generated(turn) /\ turn.status = "ok") => turn.response = turn.run.output

\* C15: a report is immutable once it is in the transcript.  Between the
\* return of the generation call and the insert, the only field assigned is
\* metrics_dict, and only when it does not parse: it becomes "{}".
C15_ImmutableOnceInserted ==
    [][ /\ \A i \in 1..Len(chat_history) :
              /\ Len(chat_history') >= Len(chat_history)
              /\ chat_history'[Len(chat_history') - Len(chat_history) + i].response
                    = chat_history[i].response
        /\ (turn'.n # turn.n /\ Generated(turn') /\ turn'.status = "ok") =>
              LET out == turn'.run.output IN
              /\ chat_history'[1].response = turn'.response
              /\ turn'.response.is_none = out.is_none
              /\ turn'.response.markdown_report = out.markdown_report
              /\ IF metrics_parse(out.metrics_dict) = "JSONDecodeError"
                 THEN turn'.response.metrics_dict = EMPTY_METRICS
                 ELSE turn'.response.metrics_dict = out.metrics_dict ]_vars

C15_Witness ==
    /\ turn.status = "ok"
    /\ Len(chat_history) = 2
    /\ turn.run.output.metrics_dict # EMPTY_METRICS
    /\ chat_history[1].response.metrics_dict = EMPTY_METRICS
    /\ chat_history[2].response.metrics_dict # EMPTY_METRICS

-----------------------------------------------------------------------------
\* Claims about rendering: write_markdown_to_file, download_button, display loop

\* the step is a script run of session s
DisplayStep(s) ==
    /\ pass'.session = s
    /\ <<sess, memo, pass>>' # <<sess, memo, pass>>

\* the arguments of the rendering call of a transcript record
CallKey(chat) ==
    << chat.response.markdown_report, DownloadName[chat.response.pdf_path],
       chat.response.document_path >>

\* line 70 for the call of a record, in the state of session s before the step
SameHashAndPdf(s, chat) ==
    LET key == CallKey(chat) IN
    /\ sess[s].file_hashes[FilePaths[key[2]].md] = content_hash(key[1], key[3])
    /\ disk[FilePaths[key[2]].pdf] # Absent

\* C11: when write_markdown_to_file is called again with the content, the
\* image list and the filename of an earlier call, and the PDF is on disk, it
\* writes no file and returns 'File <name> already exists with same content.'
C11_RepeatReportsAlreadyExists ==
    [][ \A s \in Sessions :
          (DisplayStep(s) /\ sess'[s].chat_history # <<>>) =>
            LET chat == sess'[s].chat_history[1] IN
            (memo[CallKey(chat)] # Miss /\ SameHashAndPdf(s, chat)) =>
                /\ pass'.results[1].ret = "already_exists"
                /\ ~pass'.results[1].wrote ]_vars

\* C12: a call that raises no exception skips the writing exactly when the
\* hash of its inputs is the recorded one and the PDF is on disk; otherwise
\* both files are written and the recorded hash becomes the hash of the inputs.
C12_SkipsExactlyOnSameHashAndPdf ==
    [][ \A s \in Sessions :
          (DisplayStep(s) /\ Len(sess'[s].chat_history) = 1) =>
            LET chat == sess'[s].chat_history[1]
                key == CallKey(chat)
            IN
            pass'.results[1].ret # "error" =>
                /\ pass'.results[1].wrote <=> ~SameHashAndPdf(s, chat)
                /\ ~SameHashAndPdf(s, chat) =>
                      /\ sess'[s].file_hashes[FilePaths[key[2]].md] =
                            content_hash(key[1], key[3])
                      /\ disk'[FilePaths[key[2]].pdf] # Absent ]_vars

\* C13: a rendering call whose body raises while writing the markdown or
\* saving the PDF leaves the session's recorded hashes and its transcript as
\* they were before the script run.
C13_FailedRenderKeepsHashes ==
    [][ \A s \in Sessions :
          (DisplayStep(s) /\ Len(sess'[s].chat_history) = 1) =>
            LET chat == sess'[s].chat_history[1] IN
            (memo[CallKey(chat)] = Miss /\ pass'.results[1].ret = "error") =>
                /\ sess'[s].file_hashes = sess[s].file_hashes
                /\ Tail(sess'[s].chat_history) = sess[s].chat_history ]_vars

\* the paths the download buttons of session t read
DownloadPaths(t) ==
    { FilePaths[DownloadName[sess[t].chat_history[i].response.pdf_path]].read :
        i \in 1..Len(sess[t].chat_history) }

\* C18: a script run of one session changes neither a file that a record of
\* another session downloads nor a cached result, nor the recorded hashes of
\* another session.
C18_SessionsIsolated ==
    [][ \A s \in Sessions : \A t \in Sessions \ {s} :
          DisplayStep(s) =>
            /\ sess'[t] = sess[t]
            /\ \A path \in DownloadPaths(t) : disk'[path] = disk[path] ]_vars

\* the inputs recorded by a hash
HashContent(h) == h[2]

\* C22: when the session whose script ran last has a hash recorded for a
\* filename and the PDF of that filename is on disk, the PDF was rendered from
\* the content with that hash.
C22_RecordedHashMatchesPdf ==
    \A s \in Sessions : \A f \in Filenames :
        LET h == sess[s].file_hashes[FilePaths[f].md]
            pdf == disk[FilePaths[f].pdf]
        IN
        (pass.session = s /\ h # NoHash /\ pdf # Absent) =>
            (pdf.kind = "pdf" /\ pdf.content = HashContent(h))

\* C23: after a display pass, the bytes the download button of a record has
\* read, when its rendering call reported no error, are those of a file
\* rendered from that record's own markdown.
C23_DownloadIsOwnReport ==
    \A s \in Sessions :
        pass.session = s =>
            \A i \in 1..Len(pass.results) :
                (pass.results[i].status = "ok" /\ pass.results[i].ret # "error") =>
                    pass.results[i].bytes.content =
                        sess[s].chat_history[i].response.markdown_report

\* C19: after a display pass every record of the transcript has been rendered,
\* with its content or with the warning of its own failure, whatever failed at
\* another record; the pass changes no record of the transcript.
C19_FailureKeepsOtherRecords ==
    [][ \A s \in Sessions :
          pass'.session = s =>
            /\ Len(pass'.results) = Len(sess'[s].chat_history)
            /\ \A i \in 1..Len(pass'.results) :
                  pass'.results[i].status \in {"ok", "warning"}
            /\ \/ sess'[s].chat_history = sess[s].chat_history
               \/ /\ sess'[s].chat_history # <<>>
                  /\ Tail(sess'[s].chat_history) = sess[s].chat_history ]_vars

C19_Witness ==
    /\ pass.session \in Sessions
    /\ Len(pass.results) = 2
    /\ pass.results[1].status = "warning"
    /\ pass.results[2].status = "ok"
    /\ pass.results[2].preview = "shown"

====
